---- MODULE Spec2Model ----
(***************************************************************************)
(* Model of sazen-tea-checker (src/src/main.rs): a periodic job that       *)
(* fetches a product listing page, dereferences each listing's detail      *)
(* page, filters the products on brand and ingredient keywords, sends one  *)
(* e-mail when something matched, and sleeps until the next iteration.     *)
(*                                                                         *)
(* Text is modelled as sequences of one-character strings so that          *)
(* to_lowercase, contains, split and trim are computed, not assumed.       *)
(* u64 values are four 16-bit limbs, least significant first, so that the  *)
(* 64-bit width of interval_minutes * 60 is kept.                          *)
(***************************************************************************)
EXTENDS Integers, Sequences, FiniteSets, TLC

----------------------------------------------------------------------------
(* Bounds of the model *)

\* longest listing page, counted in elements of class "product"
MaxListings == 2

----------------------------------------------------------------------------
(* Text primitives (Rust str methods used by the program) *)

UpperChars ==
    <<"A", "B", "C", "D", "E", "F", "G", "H", "I", "J", "K", "L", "M",
      "N", "O", "P", "Q", "R", "S", "T", "U", "V", "W", "X", "Y", "Z">>

LowerChars ==
    <<"a", "b", "c", "d", "e", "f", "g", "h", "i", "j", "k", "l", "m",
      "n", "o", "p", "q", "r", "s", "t", "u", "v", "w", "x", "y", "z">>

DigitChars == <<"0", "1", "2", "3", "4", "5", "6", "7", "8", "9">>

to_lowercase_char(c) ==
    IF \E i \in 1..26 : UpperChars[i] = c
    THEN LowerChars[CHOOSE i \in 1..26 : UpperChars[i] = c]
    ELSE c

\* str::to_lowercase
to_lowercase(s) == [i \in 1..Len(s) |-> to_lowercase_char(s[i])]

\* str::contains(pattern): pattern occurs as a contiguous substring
contains(s, pat) ==
    \E i \in 0..(Len(s) - Len(pat)) : SubSeq(s, i + 1, i + Len(pat)) = pat

RECURSIVE trim_start(_)
trim_start(s) ==
    IF s # <<>> /\ Head(s) = " " THEN trim_start(Tail(s)) ELSE s

RECURSIVE trim_end(_)
trim_end(s) ==
    IF s # <<>> /\ s[Len(s)] = " "
    THEN trim_end(SubSeq(s, 1, Len(s) - 1))
    ELSE s

\* str::trim
trim(s) == trim_end(trim_start(s))

\* position of the first occurrence of character sep in s, 0 when absent
RECURSIVE find_char(_, _, _)
find_char(s, sep, i) ==
    IF i > Len(s) THEN 0
    ELSE IF s[i] = sep THEN i
    ELSE find_char(s, sep, i + 1)

\* str::split(sep): every occurrence of sep separates two parts; the
\* result always has at least one part (the empty text gives <<"">>)
RECURSIVE split(_, _)
split(s, sep) ==
    LET k == find_char(s, sep, 1) IN
    IF k = 0 THEN <<s>>
    ELSE <<SubSeq(s, 1, k - 1)>> \o split(SubSeq(s, k + 1, Len(s)), sep)

----------------------------------------------------------------------------
(* u64 arithmetic on four 16-bit limbs *)

LimbBase == 65536

U64Zero == <<0, 0, 0, 0>>

\* v * m + a on 64 bits: the low 64 bits and the carry out of bit 63
MulAdd(v, m, a) ==
    LET t1 == v[1] * m + a
        t2 == v[2] * m + (t1 \div LimbBase)
        t3 == v[3] * m + (t2 \div LimbBase)
        t4 == v[4] * m + (t3 \div LimbBase)
    IN  [limbs |-> <<t1 % LimbBase, t2 % LimbBase, t3 % LimbBase, t4 % LimbBase>>,
         carry |-> t4 \div LimbBase]

digit_value(c) == (CHOOSE i \in 1..10 : DigitChars[i] = c) - 1

is_digit(c) == \E i \in 1..10 : DigitChars[i] = c

RECURSIVE parse_digits(_, _, _)
parse_digits(s, i, acc) ==
    IF i > Len(s) THEN [ok |-> TRUE, value |-> acc]
    ELSE IF ~is_digit(s[i]) THEN [ok |-> FALSE, value |-> U64Zero]
    ELSE \* checked_mul(10) then checked_add(digit); the step is computed
         \* once and its value, not its expression, is carried along
         CHOOSE result \in
            { IF r.carry # 0 THEN [ok |-> FALSE, value |-> U64Zero]
              ELSE parse_digits(s, i + 1, r.limbs) :
                r \in {MulAdd(acc, 10, digit_value(s[i]))} } : TRUE

\* str::parse::<u64>: an optional leading "+", then one or more decimal
\* digits, failing on any other character and on a value above 2^64 - 1
parse_u64(s) ==
    LET digits == IF s # <<>> /\ Head(s) = "+" THEN Tail(s) ELSE s IN
    IF digits = <<>> THEN [ok |-> FALSE, value |-> U64Zero]
    ELSE parse_digits(digits, 1, U64Zero)

----------------------------------------------------------------------------
(* Program constants *)

ENV_VAR_JOB_INTERVAL_MINUTES == "JOB_INTERVAL_MINUTES"
ENV_VAR_PRODUCTS_URL == "PRODUCTS_URL"
ENV_VAR_MATCHA_BRANDS == "MATCHA_BRANDS"
ENV_VAR_SMTP_URL == "SMTP_URL"
ENV_VAR_SMTP_USER == "SMTP_USER"
ENV_VAR_SMTP_PASSWORD == "SMTP_PASSWORD"
ENV_VAR_SMTP_TRANSCIPIENT == "SMTP_TRANSCIPIENT"
ENV_VAR_SMTP_RECIPIENT == "SMTP_RECIPIENT"
ENV_VAR_SMTP_NOTIFICATION_SUBJECT == "SMTP_NOTIFICATION_SUBJECT"

\* the settings in the order get_job_parameters reads them
JobParameterOrder ==
    <<ENV_VAR_JOB_INTERVAL_MINUTES, ENV_VAR_PRODUCTS_URL, ENV_VAR_MATCHA_BRANDS,
      ENV_VAR_SMTP_URL, ENV_VAR_SMTP_USER, ENV_VAR_SMTP_PASSWORD,
      ENV_VAR_SMTP_TRANSCIPIENT, ENV_VAR_SMTP_RECIPIENT,
      ENV_VAR_SMTP_NOTIFICATION_SUBJECT>>

EnvVarNames == {JobParameterOrder[i] : i \in 1..Len(JobParameterOrder)}

MATCHA_INGREDIENTS ==
    << <<"m", "a", "t", "c", "h", "a">>,
       <<"g", "r", "e", "e", "n", " ", "t", "e", "a", " ", "p", "o", "w", "d", "e", "r">> >>

KEY_ITEM_CODE == <<"I", "t", "e", "m", " ", "c", "o", "d", "e">>
KEY_MAKER == <<"M", "a", "k", "e", "r">>
KEY_INGREDIENTS == <<"I", "n", "g", "r", "e", "d", "i", "e", "n", "t", "s">>

BAD_CODE == <<"B", "A", "D", "_", "C", "O", "D", "E">>
BAD_MAKER == <<"B", "A", "D", "_", "M", "A", "K", "E", "R">>
BAD_INGREDIENTS ==
    <<"B", "A", "D", "_", "I", "N", "G", "R", "E", "D", "I", "E", "N", "T", "S">>
BAD_KEY_PREFIX == <<"B", "A", "D", "_", "K", "E", "Y", "_">>
BAD_VALLUE_PREFIX == <<"B", "A", "D", "_", "V", "A", "L", "L", "U", "E", "_">>

SECONDS_PER_MINUTE == 60

----------------------------------------------------------------------------
(* Configuration loading: get_job_parameters *)

NotPresent(name) == [kind |-> "NotPresent", name |-> name]
InvalidFormat(name) == [kind |-> "InvalidFormat", name |-> name]

\* variant: absent settings are not noticed
first_missing_ignored(e) == 0

\* the first setting after the interval that env::var does not return
first_missing(e) ==
    LET missing == {i \in 2..Len(JobParameterOrder) : JobParameterOrder[i] \notin e.present}
    IN  IF missing = {} THEN 0
        ELSE CHOOSE i \in missing : \A j \in missing : i <= j

\* MATCHA_BRANDS is split on commas and nothing else is done to the parts
parse_matcha_brands(value) == split(value, ",")

get_job_parameters(e) ==
    IF ENV_VAR_JOB_INTERVAL_MINUTES \notin e.present
    THEN [ok |-> FALSE, error |-> NotPresent(ENV_VAR_JOB_INTERVAL_MINUTES)]
    ELSE IF ~parse_u64(e.interval).ok
    THEN [ok |-> FALSE, error |-> InvalidFormat(ENV_VAR_JOB_INTERVAL_MINUTES)]
    ELSE IF first_missing(e) # 0
    THEN [ok |-> FALSE, error |-> NotPresent(JobParameterOrder[first_missing(e)])]
    ELSE [ok |-> TRUE,
          parameters |->
             [interval_minutes |-> parse_u64(e.interval).value,
              products_url |-> e.products_url,
              matcha_brands |-> parse_matcha_brands(e.matcha_brands),
              smtp_url |-> e.smtp_url,
              smtp_transcipient |-> e.smtp_transcipient,
              smtp_recipient |-> e.smtp_recipient]]

----------------------------------------------------------------------------
(* Extraction of one product from its detail document *)

\* decimal rendering of a paragraph index, as format!("{}", index)
RECURSIVE format_index(_)
format_index(n) ==
    IF n < 10 THEN <<DigitChars[n + 1]>>
    ELSE format_index(n \div 10) \o <<DigitChars[(n % 10) + 1]>>

\* element.text().split(":").map(trim): the parts of one info paragraph
product_info_pair(text) ==
    LET parts == split(text, ":") IN [i \in 1..Len(parts) |-> trim(parts[i])]

\* the key inserted for the paragraph at 0-based position index
pair_key(pair, index) ==
    IF Len(pair) >= 1 THEN pair[1] ELSE BAD_KEY_PREFIX \o format_index(index)

\* the value inserted for the paragraph at 0-based position index
pair_value(pair, index) ==
    IF Len(pair) >= 2 THEN pair[2] ELSE BAD_VALLUE_PREFIX \o format_index(index)

\* the insertions made into product_info_hash, in order
product_info_entries(paras) ==
    [i \in 1..Len(paras) |->
        [key |-> pair_key(product_info_pair(paras[i]), i - 1),
         value |-> pair_value(product_info_pair(paras[i]), i - 1)]]

\* variant: a missing key gives the empty text instead of the default
hash_get_or_blank(entries, key, default) ==
    LET hits == {i \in 1..Len(entries) : entries[i].key = key} IN
    IF hits = {} THEN <<>>
    ELSE entries[CHOOSE i \in hits : \A j \in hits : j <= i].value

\* HashMap::get(key).unwrap_or(default): the last insertion under key wins
hash_get_or(entries, key, default) ==
    LET hits == {i \in 1..Len(entries) : entries[i].key = key} IN
    IF hits = {} THEN default
    ELSE entries[CHOOSE i \in hits : \A j \in hits : j <= i].value

\* the body of the detail loop after a successful fetch: the products to
\* append for this link (none when the name heading or the info block is
\* not found, otherwise exactly one)
product_from_detail(link, doc) ==
    IF ~doc.has_name THEN <<>>
    ELSE IF ~doc.has_info THEN <<>>
    ELSE LET entries == product_info_entries(doc.paras) IN
         << [url |-> link,
             code |-> hash_get_or(entries, KEY_ITEM_CODE, BAD_CODE),
             name |-> doc.name,
             maker |-> hash_get_or(entries, KEY_MAKER, BAD_MAKER),
             ingredients |-> hash_get_or(entries, KEY_INGREDIENTS, BAD_INGREDIENTS)] >>

\* the absolute detail URLs of a listing page, in document order: listing
\* elements without an anchor, or whose first anchor has no href, are left out
RECURSIVE product_links_of(_, _)
product_links_of(elements, product_base_url) ==
    IF elements = <<>> THEN <<>>
    ELSE LET e == Head(elements)
             rest == product_links_of(Tail(elements), product_base_url)
         IN  IF ~e.has_anchor THEN rest
             ELSE IF ~e.has_href THEN rest
             ELSE <<product_base_url \o e.href>> \o rest

\* Url::parse, Url::origin and the base URL formatted from the origin
product_base_url_of(url) ==
    IF url.parsed = "error" THEN [ok |-> FALSE, error |-> "Error parsing product URL"]
    ELSE IF url.parsed = "opaque"
    THEN [ok |-> FALSE, error |-> "The configured URL was not in the expected format"]
    ELSE [ok |-> TRUE, base |-> url.scheme \o "://" \o url.host]

\* self.client.get(url): the request is built from the same Url::parse, and
\* the client sends requests to http and https URLs only; for every other
\* text send() returns an error without a response
request_can_be_sent(url) ==
    /\ url.parsed = "tuple"
    /\ url.scheme \in {"http", "https"}

----------------------------------------------------------------------------
(* The matcha filter of get_matcha_product_list_from_html *)

\* the closure of lines 180-183 for one brand keyword
keyword_matches(product, brand) ==
    \/ contains(to_lowercase(product.name), brand)
    \/ contains(to_lowercase(product.maker), brand)

brand_matches(product, matcha_brands) ==
    \E b \in 1..Len(matcha_brands) : keyword_matches(product, matcha_brands[b])

ingredient_matches(product) ==
    \E k \in 1..Len(MATCHA_INGREDIENTS) :
        contains(to_lowercase(product.ingredients), MATCHA_INGREDIENTS[k])

\* variant: the last product that passes both tests is left out
matcha_filter_truncating(product_list, matcha_brands) ==
    LET passing ==
            SelectSeq(SelectSeq(product_list, LAMBDA p : brand_matches(p, matcha_brands)),
                      LAMBDA p : ingredient_matches(p))
    IN  SubSeq(passing, 1, Len(passing) - 1)

\* lines 177-189: the brand filter, then the ingredient filter
matcha_filter(product_list, matcha_brands) ==
    SelectSeq(SelectSeq(product_list, LAMBDA p : brand_matches(p, matcha_brands)),
              LAMBDA p : ingredient_matches(p))

----------------------------------------------------------------------------
(* The message body of send_product_listing_email, lines 213-225 *)

\* The body is kept as the sequence of pieces written to it, in the order
\* of the write! calls: the literal pieces of the format strings and, in
\* between, the product fields formatted with {} (the text itself).
Literal(text) == [kind |-> "literal", text |-> text]
Field(kind, text) == [kind |-> kind, text |-> text]

BODY_INTRO == "<p>Check out these matcha products!</p>\n\n"
BODY_LIST_OPEN == "<ul>\n"
BODY_ITEM_OPEN == "<li><strong>"
BODY_LIST_CLOSE == "</ul>\n\n"
BODY_CLOSING == "<p>Have a great day!</p>"

\* the two write! calls of one turn of the loop at lines 217-222
render_item(product) ==
    << Literal(BODY_ITEM_OPEN), Field("name", product.name),
       Literal(" (Item code '"), Field("code", product.code),
       Literal("')</strong>: "), Field("maker", product.maker), Literal("\n"),
       Literal("<ul><li><a href=\""), Field("url", product.url),
       Literal("\">"), Field("url", product.url), Literal("</a></li></ul>\n") >>

\* the loop of lines 217-222 over a list of products
RECURSIVE render_items(_)
render_items(product_list) ==
    IF product_list = <<>> THEN <<>>
    ELSE render_item(Head(product_list)) \o render_items(Tail(product_list))

\* variant: the products are written from the last to the first
render_body_reversed(product_list) ==
    <<Literal(BODY_INTRO), Literal(BODY_LIST_OPEN)>>
        \o render_items([i \in 1..Len(product_list) |->
                            product_list[Len(product_list) + 1 - i]])
        \o <<Literal(BODY_LIST_CLOSE), Literal(BODY_CLOSING)>>

render_body(product_list) ==
    <<Literal(BODY_INTRO), Literal(BODY_LIST_OPEN)>>
        \o render_items(product_list)
        \o <<Literal(BODY_LIST_CLOSE), Literal(BODY_CLOSING)>>

----------------------------------------------------------------------------
(* The environment and the outside world: the inputs the model draws from *)

IntervalTexts ==
    { <<"2">>, <<"0">>, <<"x">>, <<>>,
      \* 307445734561825861 = floor(2^64 / 60) + 1
      <<"3", "0", "7", "4", "4", "5", "7", "3", "4", "5", "6", "1", "8", "2", "5", "8", "6", "1">>,
      \* 18446744073709551616 = 2^64
      <<"1", "8", "4", "4", "6", "7", "4", "4", "0", "7", "3", "7", "0", "9", "5", "5", "1", "6", "1", "6">> }

ProductsUrls ==
    { [text |-> "https://shop.example/products", parsed |-> "tuple",
       scheme |-> "https", host |-> "shop.example"],
      [text |-> "shop.example/products", parsed |-> "error", scheme |-> "", host |-> ""],
      [text |-> "data:text/html,products", parsed |-> "opaque", scheme |-> "", host |-> ""] }

BrandSettings ==
    { <<"M", "a", "r", "u", "y", "a", "s", "u">>,
      <<"m", "a", "r", "u", "y", "a", "s", "u", ",", "k", "o", "y", "a", "m", "a", "e", "n">>,
      <<>> }

Addresses ==
    { [text |-> "tea@example.org", valid |-> TRUE],
      [text |-> "tea.example.org", valid |-> FALSE] }

SmtpUrls == { "smtp.example.org" }

DefaultEnv ==
    [interval |-> <<"2">>,
     products_url |-> [text |-> "https://shop.example/products", parsed |-> "tuple",
                       scheme |-> "https", host |-> "shop.example"],
     matcha_brands |->
        <<"m", "a", "r", "u", "y", "a", "s", "u", ",", "k", "o", "y", "a", "m", "a", "e", "n">>,
     smtp_url |-> "smtp.example.org",
     smtp_transcipient |-> [text |-> "tea@example.org", valid |-> TRUE],
     smtp_recipient |-> [text |-> "tea@example.org", valid |-> TRUE]]

\* every setting present, with every combination of values; the recipient
\* is not parsed after a malformed sender, so at most one address is malformed
CompleteEnvs ==
    { e \in [present : {EnvVarNames}, interval : IntervalTexts,
             products_url : ProductsUrls, matcha_brands : BrandSettings,
             smtp_url : SmtpUrls, smtp_transcipient : Addresses,
             smtp_recipient : Addresses] :
        e.smtp_transcipient.valid \/ e.smtp_recipient.valid }

\* some setting absent; the values of the other settings play no part
IncompleteEnvs ==
    { [DefaultEnv EXCEPT !.interval = t] @@ [present |-> s] :
        t \in IntervalTexts, s \in (SUBSET EnvVarNames) \ {EnvVarNames} }

Envs == CompleteEnvs \cup IncompleteEnvs

\* the element of class "product" at position i of a listing page: without
\* an anchor, with an anchor that has no href, linking to its own detail
\* page, or repeating the link of the first element
ListingElements(i) ==
    { [has_anchor |-> FALSE, has_href |-> FALSE, href |-> ""],
      [has_anchor |-> TRUE, has_href |-> FALSE, href |-> ""],
      [has_anchor |-> TRUE, has_href |-> TRUE, href |-> "/product/" \o DigitChars[i + 1]],
      [has_anchor |-> TRUE, has_href |-> TRUE, href |-> "/product/1"] }

\* a listing page is the sequence of its elements of class "product"
ListingPages ==
    UNION { { page \in [1..n -> UNION {ListingElements(i) : i \in 1..n}] :
                \A i \in 1..n : page[i] \in ListingElements(i) } :
            n \in 0..MaxListings }

MARUYASU_KOICHA ==
    <<"M", "A", "R", "U", "Y", "A", "S", "U", " ", "K", "o", "i", "c", "h", "a">>
BLACK_TEA == <<"B", "l", "a", "c", "k", " ", "T", "e", "a">>
UJI_HIKARI == <<"U", "j", "i", " ", "H", "i", "k", "a", "r", "i">>

PARA_ITEM_CODE_X1 == <<"I", "t", "e", "m", " ", "c", "o", "d", "e", ":", " ", "X", "1">>
PARA_MAKER_MARUYASU ==
    <<"M", "a", "k", "e", "r", ":", " ", "M", "a", "r", "u", "y", "a", "s", "u">>
PARA_MAKER_KOYAMAEN ==
    <<"M", "a", "k", "e", "r", ":", " ", "K", "o", "y", "a", "m", "a", "e", "n">>
PARA_ITEM_CODE_NO_COLON == <<"I", "t", "e", "m", " ", "c", "o", "d", "e">>
PARA_INGREDIENTS_MATCHA ==
    <<"I", "n", "g", "r", "e", "d", "i", "e", "n", "t", "s", ":", " ", "M", "a", "t", "c", "h", "a">>
PARA_INGREDIENTS_TWO_COLONS ==
    <<"I", "n", "g", "r", "e", "d", "i", "e", "n", "t", "s", ":", " ",
      "m", "a", "t", "c", "h", "a", ":", " ", "f", "i", "n", "e">>

\* a detail document: the text of h1[itemprop=name] when there is one, and
\* the texts of the p elements under #product-info when there is one
DetailDocs ==
    { [has_name |-> TRUE, name |-> MARUYASU_KOICHA, has_info |-> TRUE,
       paras |-> <<PARA_ITEM_CODE_X1, PARA_MAKER_MARUYASU, PARA_INGREDIENTS_MATCHA>>],
      [has_name |-> TRUE, name |-> BLACK_TEA, has_info |-> TRUE,
       paras |-> <<PARA_MAKER_KOYAMAEN>>],
      [has_name |-> TRUE, name |-> UJI_HIKARI, has_info |-> TRUE,
       paras |-> <<PARA_ITEM_CODE_NO_COLON, PARA_INGREDIENTS_TWO_COLONS>>],
      [has_name |-> FALSE, name |-> <<>>, has_info |-> TRUE,
       paras |-> <<PARA_INGREDIENTS_MATCHA>>],
      [has_name |-> TRUE, name |-> MARUYASU_KOICHA, has_info |-> FALSE,
       paras |-> <<>>] }

----------------------------------------------------------------------------
(* State *)

VARIABLES
    env,              \* the process environment (never changes)
    pc,               \* where main is: "main", "loop_entry", "running",
                      \* "detail_loop", "notify", "sleeping", "exited"
    exit_status,      \* "running", or how the process ended: "ok" (main
                      \* returned Ok), "err" (main returned Err), "panic"
    error,            \* the Err value main returned, or the panic message
    reported,         \* the configuration errors printed by main
    job,              \* SazenTeaCheckerJob.parameters
    interval_seconds, \* run_job_loop's interval_seconds
    iteration,        \* which iteration is the current one: "none" before
                      \* the loop, then "first", then "later"
    iteration_result, \* what run_job_iteration returned, Pending while it runs
    html,             \* the listing page of the current iteration
    product_links,    \* detail links still to be fetched
    products,         \* get_product_list_from_html's products
    matcha_products,  \* run_job_iteration's products (the filtered list)
    events            \* requests issued in the current iteration, in order

vars == <<env, pc, exit_status, error, reported, job, interval_seconds, iteration,
          iteration_result, html, product_links, products, matcha_products, events>>

iteration_vars == <<html, product_links, products, matcha_products, events>>

NoError == [kind |-> "none", name |-> ""]
Err(kind) == [kind |-> kind, name |-> ""]
Pending == [kind |-> "pending", name |-> ""]

NoDoc == [has_name |-> FALSE, name |-> <<>>, has_info |-> FALSE, paras |-> <<>>]

NoJob ==
    [interval_minutes |-> U64Zero, products_url |-> DefaultEnv.products_url,
     matcha_brands |-> <<>>, smtp_url |-> "",
     smtp_transcipient |-> DefaultEnv.smtp_transcipient,
     smtp_recipient |-> DefaultEnv.smtp_recipient]

\* a GET and its response: status "failed" or "fetched", and the document
GetEvent(url, status, doc) ==
    [op |-> "GET", url |-> url, status |-> status, doc |-> doc, body |-> <<>>]
\* a call of send_product_listing_email
NotifyEvent == [op |-> "NOTIFY", url |-> "", status |-> "", doc |-> NoDoc, body |-> <<>>]
\* a message handed to mailer.send, its body, and whether the relay took it
SmtpEvent(relay, status, body) ==
    [op |-> "SMTP", url |-> relay, status |-> status, doc |-> NoDoc, body |-> body]

\* the current iteration after one more start
next_iteration(n) == IF n = "none" THEN "first" ELSE "later"

Init ==
    /\ env \in Envs
    /\ pc = "main"
    /\ exit_status = "running"
    /\ error = NoError
    /\ reported = <<>>
    /\ job = NoJob
    /\ interval_seconds = U64Zero
    /\ iteration = "none"
    /\ iteration_result = Pending
    /\ html = <<>>
    /\ product_links = <<>>
    /\ products = <<>>
    /\ matcha_products = <<>>
    /\ events = <<>>

----------------------------------------------------------------------------
(* How results travel up: run_job_iteration -> run_job_loop -> main *)

\* run_job_loop line 270-273: Ok(()) goes on to the sleep, Err(e) is
\* returned by `?`, and main line 311 returns it in turn
\* variant: the loop logs a failed iteration and sleeps all the same
LoopHandles_Swallow(result) ==
    /\ pc' = "sleeping"
    /\ UNCHANGED <<exit_status, error>>

\* variant: the loop returns after the first iteration, whatever its result
LoopHandles_Break(result) ==
    /\ pc' = "exited"
    /\ exit_status' = IF result = NoError THEN "ok" ELSE "err"
    /\ error' = result

LoopHandles(result) ==
    IF result = NoError
    THEN /\ pc' = "sleeping"
         /\ UNCHANGED <<exit_status, error>>
    ELSE /\ pc' = "exited"
         /\ exit_status' = "err"
         /\ error' = result

\* run_job_iteration returns result to run_job_loop
IterationReturns(result) ==
    /\ iteration_result' = result
    /\ LoopHandles(result)

\* a panic unwinds through run_job_loop and main and ends the process
Panics(message) ==
    /\ pc' = "exited"
    /\ exit_status' = "panic"
    /\ error' = Err(message)
    /\ UNCHANGED iteration_result

----------------------------------------------------------------------------
(* Actions *)

\* main, lines 305-310 and 315: load the configuration; on an error print
\* it and fall through to the final Ok(()), otherwise build the job
Main ==
    /\ pc = "main"
    /\ LET r == get_job_parameters(env) IN
       \/ /\ ~r.ok
          /\ reported' = Append(reported, r.error)
          /\ pc' = "exited"
          /\ exit_status' = "ok"
          /\ UNCHANGED <<job>>
       \/ /\ r.ok
          /\ job' = r.parameters
          /\ pc' = "loop_entry"
          /\ UNCHANGED <<reported, exit_status>>
    /\ UNCHANGED <<env, error, interval_seconds, iteration, iteration_result,
                   iteration_vars>>

\* run_job_loop, lines 266-269: interval_minutes * 60 on u64, then the
\* first iteration starts.  When the product does not fit in 64 bits a
\* build with overflow checks panics and a build without them wraps.
RunJobLoopEnter ==
    /\ pc = "loop_entry"
    /\ LET m == MulAdd(job.interval_minutes, SECONDS_PER_MINUTE, 0) IN
       \/ /\ m.carry = 0
          /\ interval_seconds' = m.limbs
          /\ pc' = "running"
          /\ iteration' = next_iteration(iteration)
          /\ UNCHANGED <<exit_status, error, iteration_result>>
       \/ /\ m.carry # 0
          /\ interval_seconds' = m.limbs
          /\ pc' = "running"
          /\ iteration' = next_iteration(iteration)
          /\ UNCHANGED <<exit_status, error, iteration_result>>
       \/ /\ m.carry # 0
          /\ Panics("attempt to multiply with overflow")
          /\ UNCHANGED <<interval_seconds, iteration>>
    /\ UNCHANGED <<env, reported, job, iteration_vars>>

\* run_job_iteration line 251-253 up to the detail loop: GET the listing
\* page, parse it, derive the base URL and collect the detail links.  A URL
\* that does not parse, or has no tuple origin, never gets a response, so
\* the two error returns of lines 104-112 are kept but cannot be taken.
FetchListing ==
    /\ pc = "running"
    /\ \/ /\ events' = Append(events, GetEvent(job.products_url.text, "failed", NoDoc))
          /\ IterationReturns(Err("GET request failed"))
          /\ UNCHANGED <<html, product_links, products>>
       \/ /\ events' = Append(events, GetEvent(job.products_url.text, "failed", NoDoc))
          /\ IterationReturns(Err("Conversion of response to text failed"))
          /\ UNCHANGED <<html, product_links, products>>
       \/ \E page \in ListingPages :
             LET base == product_base_url_of(job.products_url) IN
             /\ request_can_be_sent(job.products_url)
             /\ events' = Append(events, GetEvent(job.products_url.text, "fetched", NoDoc))
             /\ html' = page
             /\ \/ /\ ~base.ok
                   /\ IterationReturns(Err(base.error))
                   /\ UNCHANGED <<product_links, products>>
                \/ /\ base.ok
                   /\ product_links' = product_links_of(page, base.base)
                   /\ products' = <<>>
                   /\ pc' = "detail_loop"
                   /\ UNCHANGED <<exit_status, error, iteration_result>>
    /\ UNCHANGED <<env, reported, job, interval_seconds, iteration, matcha_products>>

\* variant: a failed detail GET is propagated with `?` instead of skipped
FetchDetail_Propagate ==
    /\ pc = "detail_loop"
    /\ product_links # <<>>
    /\ product_links' = Tail(product_links)
    /\ \/ /\ events' = Append(events, GetEvent(Head(product_links), "failed", NoDoc))
          /\ IterationReturns(Err("GET request failed"))
          /\ UNCHANGED products
       \/ \E doc \in DetailDocs :
             /\ events' = Append(events, GetEvent(Head(product_links), "fetched", doc))
             /\ products' = products \o product_from_detail(Head(product_links), doc)
             /\ UNCHANGED <<pc, exit_status, error, iteration_result>>
    /\ UNCHANGED <<env, reported, job, interval_seconds, iteration, html, matcha_products>>

\* variant: a link whose GET failed stays first in line and is fetched again
FetchDetail_Retry ==
    /\ pc = "detail_loop"
    /\ product_links # <<>>
    /\ \/ /\ events' = Append(events, GetEvent(Head(product_links), "failed", NoDoc))
          /\ UNCHANGED <<products, product_links>>
       \/ \E doc \in DetailDocs :
             /\ events' = Append(events, GetEvent(Head(product_links), "fetched", doc))
             /\ products' = products \o product_from_detail(Head(product_links), doc)
             /\ product_links' = Tail(product_links)
    /\ UNCHANGED <<env, pc, exit_status, error, reported, job, interval_seconds,
                   iteration, iteration_result, html, matcha_products>>

\* variant: the loop takes the links from the end of the list
FetchDetail_LastFirst ==
    /\ pc = "detail_loop"
    /\ product_links # <<>>
    /\ product_links' = SubSeq(product_links, 1, Len(product_links) - 1)
    /\ LET link == product_links[Len(product_links)] IN
       \/ /\ events' = Append(events, GetEvent(link, "failed", NoDoc))
          /\ UNCHANGED products
       \/ \E doc \in DetailDocs :
             /\ events' = Append(events, GetEvent(link, "fetched", doc))
             /\ products' = products \o product_from_detail(link, doc)
    /\ UNCHANGED <<env, pc, exit_status, error, reported, job, interval_seconds,
                   iteration, iteration_result, html, matcha_products>>

\* one turn of the detail loop, lines 128-170: GET the next link; a failed
\* GET is printed and the link skipped, a fetched document gives at most
\* one product
FetchDetail ==
    /\ pc = "detail_loop"
    /\ product_links # <<>>
    /\ product_links' = Tail(product_links)
    /\ \/ /\ events' = Append(events, GetEvent(Head(product_links), "failed", NoDoc))
          /\ UNCHANGED products
       \/ \E doc \in DetailDocs :
             /\ events' = Append(events, GetEvent(Head(product_links), "fetched", doc))
             /\ products' = products \o product_from_detail(Head(product_links), doc)
    /\ UNCHANGED <<env, pc, exit_status, error, reported, job, interval_seconds,
                   iteration, iteration_result, html, matcha_products>>

\* variant: the is_empty test of line 254 is missing
FinishExtraction_AlwaysNotify ==
    /\ pc = "detail_loop"
    /\ product_links = <<>>
    /\ matcha_products' = matcha_filter(products, job.matcha_brands)
    /\ pc' = "notify"
    /\ UNCHANGED <<env, exit_status, error, iteration_result, reported, job,
                   interval_seconds, iteration, html, product_links, products, events>>

\* variant: an iteration that finds no matcha product ends with an error
FinishExtraction_EmptyIsError ==
    /\ pc = "detail_loop"
    /\ product_links = <<>>
    /\ matcha_products' = matcha_filter(products, job.matcha_brands)
    /\ \/ /\ matcha_products' = <<>>
          /\ IterationReturns(Err("No matcha products found"))
       \/ /\ matcha_products' # <<>>
          /\ pc' = "notify"
          /\ UNCHANGED <<exit_status, error, iteration_result>>
    /\ UNCHANGED <<env, reported, job, interval_seconds, iteration, html,
                   product_links, products, events>>

\* lines 172, 176-191 and 253-259: the loop is over, the list is filtered,
\* and an empty result ends the iteration with Ok(())
FinishExtraction ==
    /\ pc = "detail_loop"
    /\ product_links = <<>>
    /\ matcha_products' = matcha_filter(products, job.matcha_brands)
    /\ \/ /\ matcha_products' = <<>>
          /\ IterationReturns(NoError)
       \/ /\ matcha_products' # <<>>
          /\ pc' = "notify"
          /\ UNCHANGED <<exit_status, error, iteration_result>>
    /\ UNCHANGED <<env, reported, job, interval_seconds, iteration, html,
                   product_links, products, events>>

\* send_product_listing_email, lines 194-248, and its caller's `?`
SendEmail ==
    /\ pc = "notify"
    /\ \/ /\ ~job.smtp_transcipient.valid
          /\ events' = Append(events, NotifyEvent)
          /\ IterationReturns(Err("Error parsing transcipient email"))
       \/ /\ job.smtp_transcipient.valid
          /\ ~job.smtp_recipient.valid
          /\ events' = Append(events, NotifyEvent)
          /\ IterationReturns(Err("Error parsing recipient email"))
       \/ /\ job.smtp_transcipient.valid
          /\ job.smtp_recipient.valid
          /\ \/ /\ events' = Append(events, NotifyEvent)
                /\ IterationReturns(Err("Error generating e-mail message"))
             \/ /\ events' = Append(events, NotifyEvent)
                /\ Panics("Unable to create mailer. Check SMTP URL...")
             \/ /\ events' = Append(Append(events, NotifyEvent),
                                     SmtpEvent(job.smtp_url, "failed",
                                               render_body(matcha_products)))
                /\ IterationReturns(Err("Could not send email"))
             \/ /\ events' = Append(Append(events, NotifyEvent),
                                     SmtpEvent(job.smtp_url, "sent",
                                               render_body(matcha_products)))
                /\ IterationReturns(NoError)
    /\ UNCHANGED <<env, reported, job, interval_seconds, iteration, html,
                   product_links, products, matcha_products>>

\* variant: the job keeps the lists of the last iteration across the sleep
WakeUp_Remembers ==
    /\ pc = "sleeping"
    /\ pc' = "running"
    /\ html' = <<>>
    /\ product_links' = <<>>
    /\ events' = <<>>
    /\ iteration' = next_iteration(iteration)
    /\ iteration_result' = Pending
    /\ UNCHANGED <<env, exit_status, error, reported, job, interval_seconds,
                   products, matcha_products>>

\* run_job_loop lines 273 and 268-269: the sleep is over and the next
\* iteration starts with nothing kept from the last one
WakeUp ==
    /\ pc = "sleeping"
    /\ pc' = "running"
    /\ html' = <<>>
    /\ product_links' = <<>>
    /\ products' = <<>>
    /\ matcha_products' = <<>>
    /\ events' = <<>>
    /\ iteration' = next_iteration(iteration)
    /\ iteration_result' = Pending
    /\ UNCHANGED <<env, exit_status, error, reported, job, interval_seconds>>

Next ==
    \/ Main
    \/ RunJobLoopEnter
    \/ FetchListing
    \/ FetchDetail
    \/ FinishExtraction
    \/ SendEmail
    \/ WakeUp

Spec == Init /\ [][Next]_vars

\* the program is one sequential task, so at most one action is enabled
\* in a state; the runtime keeps polling main's future and every external
\* call (GET, SMTP send, sleep) returns, so the enabled step is taken
\* The progress of the loop does not depend on which keywords or pages are
\* involved, so it is examined from a smaller set of environments: every
\* interval text and every kind of URL, one brand setting, and a sender
\* address of either kind.
FairEnvs ==
    { e \in CompleteEnvs :
        /\ e.matcha_brands = DefaultEnv.matcha_brands
        /\ e.smtp_recipient.valid }

FairInit == Init /\ env \in FairEnvs

FairSpec == FairInit /\ [][Next]_vars /\ WF_vars(Next)

TypeOK ==
    /\ pc \in {"main", "loop_entry", "running", "detail_loop", "notify", "sleeping", "exited"}
    /\ exit_status \in {"running", "ok", "err", "panic"}
    /\ iteration \in {"none", "first", "later"}
    /\ Len(product_links) <= MaxListings
    /\ Len(products) <= MaxListings

----------------------------------------------------------------------------
(* Vocabulary of the properties *)

CountOp(op) == Cardinality({i \in DOMAIN events : events[i].op = op})

\* calls of send_product_listing_email in the current iteration
NotifyCalls == CountOp("NOTIFY")

\* messages handed to mailer.send in the current iteration
SmtpSubmissions == CountOp("SMTP")

\* the detail-page GETs of the current iteration: every GET after the first
DetailGets ==
    IF events = <<>> THEN <<>>
    ELSE SelectSeq(Tail(events), LAMBDA e : e.op = "GET")

FetchedDetailGets == SelectSeq(DetailGets, LAMBDA e : e.status = "fetched")

UrlsOf(records) == [i \in 1..Len(records) |-> records[i].url]

RECURSIVE IsSubsequence(_, _)
IsSubsequence(a, b) ==
    IF a = <<>> THEN TRUE
    ELSE IF b = <<>> THEN FALSE
    ELSE IF Head(a) = Head(b) THEN IsSubsequence(Tail(a), Tail(b))
    ELSE IsSubsequence(a, Tail(b))

IterationFailed == iteration_result \notin {Pending, NoError}

\* the current iteration is over, one way or another
IterationOver == iteration # "none" /\ pc \in {"sleeping", "exited"}

\* extraction of the current iteration is under way or done
Extracting == pc \in {"detail_loop", "notify", "sleeping"}

----------------------------------------------------------------------------
(* C1 *)

\* C1: fail-fast.  Once run_job_iteration has returned an error the
\* process has exited with exactly that error as main's result, and from
\* then on nothing moves: no sleep, no new iteration, no GET, no SMTP send.
C1_FailFast ==
    /\ [](IterationFailed =>
            /\ pc = "exited"
            /\ exit_status = "err"
            /\ error = iteration_result)
    /\ [][IterationFailed => UNCHANGED <<pc, iteration, events, exit_status, error>>]_vars

\* a send failure in a later iteration has ended the process
C1_Witness ==
    /\ IterationFailed
    /\ iteration = "later"
    /\ error = Err("Could not send email")
    /\ pc = "exited"

----------------------------------------------------------------------------
(* C2 *)

\* C2: the scheduler has no terminal state under normal operation.  An
\* iteration that returns Ok(()) is followed by the sleep, with or without
\* matches; the sleep is followed by a new iteration and by nothing else; an
\* iteration is entered only from the loop entry or from a sleep; and a
\* running iteration always ends in a sleep unless it fails.
C2_NoTerminalState ==
    /\ [][(iteration_result # NoError /\ iteration_result' = NoError)
            => pc' = "sleeping"]_vars
    /\ [][pc = "sleeping" => pc' \in {"sleeping", "running"}]_vars
    /\ [][(pc # "running" /\ pc' = "running") => pc \in {"loop_entry", "sleeping"}]_vars
    /\ (pc = "sleeping") ~> (pc = "running")
    /\ (pc = "running") ~> (pc = "sleeping" \/ pc = "exited")

\* a later iteration, started after a sleep, has completed and sleeps again
C2_Witness ==
    /\ pc = "sleeping"
    /\ iteration = "later"
    /\ iteration_result = NoError

----------------------------------------------------------------------------
(* C3 *)

\* C3: within one iteration send_product_listing_email is called exactly
\* once when the filtered list is non-empty and never when it is empty; at
\* most one message is handed to the relay, and only inside that call; an
\* empty filtered list ends the iteration with Ok(()) and no request.
C3_EmailIffMatches ==
    /\ [](NotifyCalls <= 1 /\ SmtpSubmissions <= NotifyCalls)
    /\ [](matcha_products = <<>> => NotifyCalls = 0)
    /\ []((IterationOver /\ matcha_products # <<>>) => NotifyCalls = 1)
    /\ [][(pc = "detail_loop" /\ pc' # "detail_loop" /\ matcha_products' = <<>>)
            => (pc' = "sleeping" /\ iteration_result' = NoError /\ events' = events)]_vars

\* an iteration found matches and submitted one message
C3_Witness ==
    /\ pc = "sleeping"
    /\ matcha_products # <<>>
    /\ NotifyCalls = 1
    /\ SmtpSubmissions = 1

----------------------------------------------------------------------------
(* C4 *)

\* C4: a failed detail GET drops that listing only.  The detail GETs issued
\* so far followed by the links still to fetch are always all the links of
\* the page, in order; products come only from fetched pages; a failed GET
\* leaves the product list and the loop as they are; and nothing in the
\* detail loop ends the iteration with an error.
C4_DetailFailureSkipped ==
    /\ [](Extracting =>
            /\ UrlsOf(DetailGets) \o product_links
                 = product_links_of(html, product_base_url_of(job.products_url).base)
            /\ IsSubsequence(UrlsOf(products), UrlsOf(FetchedDetailGets)))
    /\ [][pc = "detail_loop" =>
            /\ pc' \in {"detail_loop", "notify", "sleeping"}
            /\ exit_status' = "running"
            /\ iteration_result' \in {Pending, NoError}]_vars
    /\ [][(pc = "detail_loop" /\ Len(events') > Len(events)
             /\ events'[Len(events')].status = "failed")
            => (products' = products /\ pc' = "detail_loop")]_vars

\* the first detail GET failed, the second was fetched and gave a product
C4_Witness ==
    /\ pc \in {"notify", "sleeping"}
    /\ Len(DetailGets) = 2
    /\ DetailGets[1].status = "failed"
    /\ DetailGets[2].status = "fetched"
    /\ Len(products) = 1

----------------------------------------------------------------------------
(* C5 *)

\* C5 as claimed: whenever the process has ended after a call of
\* send_product_listing_email, it has ended through the error that call
\* returned to run_job_iteration.
C5_NotifyFailureIsReturned ==
    (pc = "exited" /\ NotifyCalls = 1) =>
        /\ exit_status = "err"
        /\ IterationFailed
        /\ error = iteration_result

----------------------------------------------------------------------------
(* C6 *)

IntervalNotNumeric ==
    \/ env.interval = <<>>
    \/ \E i \in 1..Len(env.interval) : ~is_digit(env.interval[i])

ConfigurationError ==
    \/ env.present # EnvVarNames
    \/ IntervalNotNumeric

\* C6: with a mandatory setting absent or a non-numeric interval the
\* process never leaves main: no iteration starts, no request is issued,
\* the error is printed once and the process has then exited.
C6_ConfigErrorBeforeLoop ==
    ConfigurationError =>
        /\ pc \in {"main", "exited"}
        /\ iteration = "none"
        /\ events = <<>>
        /\ ~get_job_parameters(env).ok
        /\ (pc = "main" => reported = <<>>)
        /\ (pc = "exited" => reported = <<get_job_parameters(env).error>>)

\* the interval is fine, a later setting is absent, and the process is over
C6_Witness ==
    /\ pc = "exited"
    /\ ~IntervalNotNumeric
    /\ ENV_VAR_SMTP_RECIPIENT \notin env.present
    /\ Len(reported) = 1

----------------------------------------------------------------------------
(* C7 *)

\* C7 as claimed: when the process has ended, main's result is an error.
C7_ExitIsError == pc = "exited" => exit_status # "ok"

----------------------------------------------------------------------------
(* C8 *)

\* case-insensitive containment, the test the filter is specified with
MatchesIgnoringCase(text, keyword) ==
    contains(to_lowercase(text), to_lowercase(keyword))

BrandTest(product, matcha_brands) ==
    \E b \in 1..Len(matcha_brands) :
        \/ MatchesIgnoringCase(product.name, matcha_brands[b])
        \/ MatchesIgnoringCase(product.maker, matcha_brands[b])

IngredientTest(product) ==
    \E k \in 1..Len(MATCHA_INGREDIENTS) :
        MatchesIgnoringCase(product.ingredients, MATCHA_INGREDIENTS[k])

\* C8 as claimed: the filtered list is exactly the subsequence of the
\* extracted products that pass the brand test and the ingredient test.
C8_FilterIsSubsequence ==
    pc \in {"notify", "sleeping"} =>
        matcha_products
          = SelectSeq(products,
                      LAMBDA p : BrandTest(p, job.matcha_brands) /\ IngredientTest(p))

----------------------------------------------------------------------------
(* C9 *)

LowercasedProduct(product) ==
    [product EXCEPT !.name = to_lowercase(product.name),
                    !.maker = to_lowercase(product.maker)]

\* C9 as claimed: whether a configured keyword matches a product is the
\* same when the product text and the keyword are both put in lower case.
C9_CaseInsensitive ==
    \A i \in 1..Len(products) : \A b \in 1..Len(job.matcha_brands) :
        keyword_matches(products[i], job.matcha_brands[b])
          = keyword_matches(LowercasedProduct(products[i]),
                            to_lowercase(job.matcha_brands[b]))

----------------------------------------------------------------------------
(* C10 *)

\* the label of an info paragraph: the trimmed text before its first colon
LabelOf(para) ==
    LET k == find_char(para, ":", 1) IN
    trim(IF k = 0 THEN para ELSE SubSeq(para, 1, k - 1))

HasLabel(doc, label) == \E i \in 1..Len(doc.paras) : LabelOf(doc.paras[i]) = label

\* the last paragraph carrying the label has no colon at all
LabelWithoutValue(doc, label) ==
    /\ HasLabel(doc, label)
    /\ LET last == CHOOSE i \in 1..Len(doc.paras) :
                      /\ LabelOf(doc.paras[i]) = label
                      /\ \A j \in 1..Len(doc.paras) :
                            LabelOf(doc.paras[j]) = label => j <= i
       IN  find_char(doc.paras[last], ":", 1) = 0

\* 0-based position of the last paragraph carrying the label
LastIndexOf(doc, label) ==
    (CHOOSE i \in 1..Len(doc.paras) :
        /\ LabelOf(doc.paras[i]) = label
        /\ \A j \in 1..Len(doc.paras) : LabelOf(doc.paras[j]) = label => j <= i) - 1

\* the fetched detail pages that have both a name heading and an info block
CompleteDetailGets ==
    SelectSeq(FetchedDetailGets, LAMBDA e : e.doc.has_name /\ e.doc.has_info)

FieldIsSentinel(doc, label, field, sentinel) ==
    /\ ~HasLabel(doc, label) => field = sentinel
    /\ LabelWithoutValue(doc, label) =>
          field = BAD_VALLUE_PREFIX \o format_index(LastIndexOf(doc, label))

\* C10 as claimed: every fetched detail page gives a record.
C10_RecordAlwaysEmitted ==
    Extracting => Len(products) = Len(FetchedDetailGets)

\* C10 as amended: the records are exactly those of the fetched pages that
\* have a name heading and an info block, in order; a field whose label is
\* absent holds BAD_CODE, BAD_MAKER or BAD_INGREDIENTS and a field whose
\* paragraph has no colon holds BAD_VALLUE_n.
C10_RecordEmittedWhenNameAndInfo ==
    Extracting =>
        /\ Len(products) = Len(CompleteDetailGets)
        /\ \A i \in 1..Len(products) :
              LET doc == CompleteDetailGets[i].doc IN
              /\ products[i].url = CompleteDetailGets[i].url
              /\ products[i].name = doc.name
              /\ FieldIsSentinel(doc, KEY_ITEM_CODE, products[i].code, BAD_CODE)
              /\ FieldIsSentinel(doc, KEY_MAKER, products[i].maker, BAD_MAKER)
              /\ FieldIsSentinel(doc, KEY_INGREDIENTS, products[i].ingredients,
                                 BAD_INGREDIENTS)

\* a record with sentinels was emitted and a fetched page without a name
\* heading or info block was dropped
C10_Witness ==
    /\ Extracting
    /\ Len(FetchedDetailGets) > Len(products)
    /\ \E i \in 1..Len(products) :
          /\ products[i].code = BAD_VALLUE_PREFIX \o <<"0">>
          /\ products[i].maker = BAD_MAKER

----------------------------------------------------------------------------
(* C11 *)

\* the detail links discovered on the listing page of the current iteration
DiscoveredLinks ==
    product_links_of(html, product_base_url_of(job.products_url).base)

ListingFetched == events # <<>> /\ events[1].status = "fetched"

\* C11: in an iteration the first request is the one GET of the listing
\* page; when it fails no other GET follows; when it succeeds the GETs
\* after it are one per discovered link, link by link, so that a finished
\* iteration has issued one GET for the page and one for each link; and a
\* failed GET is not issued again: the listing failure ends the iteration
\* and a failed detail link leaves the list of links still to fetch.
C11_OneGetPerListing ==
    /\ []((iteration # "none" /\ pc # "running") =>
            /\ events # <<>>
            /\ events[1].op = "GET"
            /\ events[1].url = job.products_url.text)
    /\ []((events # <<>> /\ ~ListingFetched) => (Len(events) = 1 /\ pc = "exited"))
    /\ [](Extracting =>
            /\ Len(DetailGets) + Len(product_links) = Len(DiscoveredLinks)
            /\ \A i \in 1..Len(DetailGets) : DetailGets[i].url = DiscoveredLinks[i])
    /\ []((IterationOver /\ ListingFetched) =>
            CountOp("GET") = 1 + Len(DiscoveredLinks))
    /\ [][(pc = "detail_loop" /\ Len(events') > Len(events)
             /\ events'[Len(events')].status = "failed")
            => product_links' = Tail(product_links)]_vars

\* a later iteration is over: two different links, the GET of the first
\* failed and was followed by the GET of the second, and by nothing else
C11_Witness ==
    /\ pc = "sleeping"
    /\ iteration = "later"
    /\ CountOp("GET") = 3
    /\ events[2].status = "failed"
    /\ events[2].url # events[3].url

----------------------------------------------------------------------------
(* C12 *)

\* what the detail loop makes of a sequence of detail responses
RECURSIVE ProductsOfResponses(_)
ProductsOfResponses(gets) ==
    IF gets = <<>> THEN <<>>
    ELSE (IF Head(gets).status = "fetched"
          THEN product_from_detail(Head(gets).url, Head(gets).doc)
          ELSE <<>>) \o ProductsOfResponses(Tail(gets))

\* the filtered list that follows from the configuration and from the
\* detail responses of the current iteration alone
MatchesOfResponses == matcha_filter(ProductsOfResponses(DetailGets), job.matcha_brands)

SmtpEvents == SelectSeq(events, LAMBDA e : e.op = "SMTP")

\* C12: the outcome of an iteration is a function of the configuration and
\* of the responses served in that iteration.  Every iteration, the first
\* and the later ones, starts with nothing but the configuration; the
\* configuration does not change once the loop runs; the GETs issued are
\* those of the links of this iteration's listing page; the products and
\* the filtered list are those of this iteration's detail responses; an
\* email is attempted exactly when that list is non-empty, and the message
\* submitted carries exactly that list.
C12_IterationsStateless ==
    /\ [](pc = "running" =>
            /\ html = <<>> /\ product_links = <<>> /\ products = <<>>
            /\ matcha_products = <<>> /\ events = <<>>
            /\ iteration_result = Pending)
    /\ [][pc \notin {"main", "loop_entry"} =>
            UNCHANGED <<env, job, interval_seconds>>]_vars
    /\ [](pc = "loop_entry" => job = get_job_parameters(env).parameters)
    /\ [](Extracting =>
            /\ UrlsOf(DetailGets) \o product_links = DiscoveredLinks
            /\ products = ProductsOfResponses(DetailGets))
    /\ []((pc \in {"notify", "sleeping"} \/ SmtpEvents # <<>>) =>
            \A matches \in {MatchesOfResponses} :
                /\ pc \in {"notify", "sleeping"} => matcha_products = matches
                /\ pc = "sleeping" => (NotifyCalls = 1 <=> matches # <<>>)
                /\ \A i \in 1..Len(SmtpEvents) :
                      SmtpEvents[i].body = render_body(matches))

\* a later iteration saw a matching product and announced it
C12_Witness ==
    /\ pc = "sleeping"
    /\ iteration = "later"
    /\ MatchesOfResponses # <<>>
    /\ Len(SmtpEvents) = 1
    /\ SmtpEvents[1].status = "sent"

----------------------------------------------------------------------------
(* C13 *)

\* C13: the matcha filter is idempotent.  For the products extracted so
\* far and the configured keywords, whatever they are, filtering the
\* filtered list again with the same keywords gives the same list, element
\* by element.
C13_FilterIdempotent ==
    \A once \in {matcha_filter(products, job.matcha_brands)} :
        matcha_filter(once, job.matcha_brands) = once

\* two products were extracted and the filter kept one and dropped one
C13_Witness ==
    /\ pc \in {"notify", "sleeping"}
    /\ Len(products) = 2
    /\ Len(matcha_products) = 1
    /\ matcha_filter(matcha_products, job.matcha_brands) = matcha_products

----------------------------------------------------------------------------
(* C14 *)

\* the value of an info paragraph as specified: the trimmed text after its
\* first colon, in full
ValueAfterFirstColon(para) ==
    LET k == find_char(para, ":", 1) IN trim(SubSeq(para, k + 1, Len(para)))

\* the field holds the full value of the last paragraph carrying the label
FieldIsFullValue(doc, label, field) ==
    (HasLabel(doc, label) /\ ~LabelWithoutValue(doc, label)) =>
        field = ValueAfterFirstColon(doc.paras[LastIndexOf(doc, label) + 1])

\* C14 as claimed: the code, maker and ingredients of a record are the
\* texts after the first colon of their paragraphs, complete, also when
\* the text itself contains a colon.
C14_ValueAfterFirstColon ==
    Extracting =>
        \A i \in 1..Len(products) :
            i <= Len(CompleteDetailGets) =>
                LET doc == CompleteDetailGets[i].doc IN
                /\ FieldIsFullValue(doc, KEY_ITEM_CODE, products[i].code)
                /\ FieldIsFullValue(doc, KEY_MAKER, products[i].maker)
                /\ FieldIsFullValue(doc, KEY_INGREDIENTS, products[i].ingredients)

----------------------------------------------------------------------------
(* C15 *)

\* a u64 given by its limbs is at least the small number n
U64AtLeast(limbs, n) ==
    \/ limbs[1] >= n
    \/ \E i \in 2..Len(limbs) : limbs[i] # 0

\* C15 as claimed: once the loop runs the interval is at least one minute,
\* and while the job sleeps the sleep is at least 60 seconds long.
C15_IntervalPositive ==
    /\ iteration # "none" => U64AtLeast(job.interval_minutes, 1)
    /\ pc = "sleeping" => U64AtLeast(interval_seconds, SECONDS_PER_MINUTE)

----------------------------------------------------------------------------
(* C16 *)

\* the listing page of the current iteration was fetched and has no element
\* of class "product"
EmptyListingPage == ListingFetched /\ html = <<>>

\* C16: after a listing page without listing elements the product list and
\* the filtered list are empty, the listing GET stays the only request of
\* the iteration (no detail GET, no email), the iteration does not fail,
\* and the one step left to it ends it with Ok(()) and goes to the sleep.
C16_EmptyListingPage ==
    /\ [](EmptyListingPage =>
            /\ products = <<>>
            /\ matcha_products = <<>>
            /\ Len(events) = 1
            /\ pc \in {"detail_loop", "sleeping"}
            /\ exit_status = "running"
            /\ iteration_result = (IF pc = "sleeping" THEN NoError ELSE Pending))
    /\ [][(EmptyListingPage /\ pc = "detail_loop") =>
            (pc' = "sleeping" /\ iteration_result' = NoError /\ events' = events)]_vars

\* an iteration over an empty listing page has ended and the job sleeps,
\* here with the brand setting that lets every product pass the brand test
C16_Witness ==
    /\ EmptyListingPage
    /\ pc = "sleeping"
    /\ iteration_result = NoError
    /\ job.matcha_brands = << <<>> >>

----------------------------------------------------------------------------
(* C17 *)

IsLiteral(piece, text) == piece.kind = "literal" /\ piece.text = text
IsField(piece, kind, text) == piece.kind = kind /\ piece.text = text

\* the positions in a body where a per-product list item opens
ItemStarts(body) == {k \in 1..Len(body) : IsLiteral(body[k], BODY_ITEM_OPEN)}

\* the i-th smallest member of a set of positions
NthOf(positions, i) ==
    CHOOSE k \in positions : Cardinality({j \in positions : j < k}) = i - 1

\* the pieces of the i-th item: from where it opens up to the next item, or
\* up to the end of the list
ItemPieces(body, i) ==
    LET starts == ItemStarts(body)
        from == NthOf(starts, i)
        to == IF i < Cardinality(starts) THEN NthOf(starts, i + 1) - 1
              ELSE Len(body) - 2
    IN  SubSeq(body, from, to)

Embeds(pieces, kind, text) == \E k \in 1..Len(pieces) : IsField(pieces[k], kind, text)

\* C17: every body handed to the relay was rendered from a non-empty list;
\* it opens with the intro line and ends with the closing line; it has as
\* many per-product items as the list has products, all between the two
\* lines; and the i-th item embeds the name, the item code, the maker and
\* the URL of the i-th product.
C17_BodyListsProducts ==
    \A e \in 1..Len(SmtpEvents) :
        LET body == SmtpEvents[e].body
            n == Len(matcha_products)
        IN  /\ n > 0
            /\ IsLiteral(body[1], BODY_INTRO)
            /\ IsLiteral(body[Len(body)], BODY_CLOSING)
            /\ Cardinality(ItemStarts(body)) = n
            /\ \A k \in ItemStarts(body) : 1 < k /\ k < Len(body)
            /\ \A i \in 1..n :
                  LET pieces == ItemPieces(body, i) IN
                  /\ Embeds(pieces, "name", matcha_products[i].name)
                  /\ Embeds(pieces, "code", matcha_products[i].code)
                  /\ Embeds(pieces, "maker", matcha_products[i].maker)
                  /\ Embeds(pieces, "url", matcha_products[i].url)

\* a message listing two different products was handed to the relay
C17_Witness ==
    /\ pc = "sleeping"
    /\ Len(SmtpEvents) = 1
    /\ Len(matcha_products) = 2
    /\ matcha_products[1] # matcha_products[2]
    /\ Cardinality(ItemStarts(SmtpEvents[1].body)) = 2

----------------------------------------------------------------------------
(* C18 *)

\* the requests of the current iteration, one after the other: only GETs
\* come before a GET
GetsComeFirst ==
    \A i, j \in 1..Len(events) :
        (i < j /\ events[j].op = "GET") => events[i].op = "GET"

\* the positions in the listing page of the elements that give a link
LinkedPositions == {k \in 1..Len(html) : html[k].has_anchor /\ html[k].has_href}

\* the listing element behind the i-th discovered link
ListingOf(i) == html[NthOf(LinkedPositions, i)]

\* C18: the events of an iteration are ordered.  The listing GET is the
\* first event and every detail GET follows it; the i-th detail GET is for
\* the i-th listing element with a link, in document order; the products
\* are those of the fetched pages in that same order; the email comes after
\* the last detail GET, when no link is left; a step adds the events of one
\* request only, after those already there; and the events of the next
\* iteration begin only with the step that ends the sleep of this one.
C18_EventsOrdered ==
    /\ [](GetsComeFirst)
    /\ [](Extracting =>
            /\ ListingFetched
            /\ Cardinality(LinkedPositions) = Len(DetailGets) + Len(product_links)
            /\ \A i \in 1..Len(DetailGets) :
                  DetailGets[i].url
                    = product_base_url_of(job.products_url).base \o ListingOf(i).href
            /\ products = ProductsOfResponses(DetailGets))
    /\ []((NotifyCalls + SmtpSubmissions > 0) =>
            (product_links = <<>> /\ Len(DetailGets) = Cardinality(LinkedPositions)))
    /\ [][\/ events' = events
          \/ /\ pc \in {"running", "detail_loop", "notify"}
             /\ Len(events') > Len(events)
             /\ SubSeq(events', 1, Len(events)) = events
             /\ \A k \in (Len(events) + 2)..Len(events') : events'[k].op = "SMTP"
          \/ /\ pc = "sleeping" /\ pc' = "running"
             /\ iteration_result = NoError
             /\ events' = <<>>]_vars
    /\ [][iteration' # iteration =>
            (pc \in {"loop_entry", "sleeping"} /\ events' = <<>>)]_vars

\* a later iteration in full: the listing GET, the detail GETs of two
\* different links of which one gave no product, then the email
C18_Witness ==
    /\ pc = "sleeping"
    /\ iteration = "later"
    /\ Len(events) = 5
    /\ events[2].url # events[3].url
    /\ events[3].status = "fetched"
    /\ Len(products) = 1
    /\ events[4].op = "NOTIFY"
    /\ events[5].op = "SMTP"

----------------------------------------------------------------------------
(* C19 *)

\* C19 as claimed: for every interval that get_job_parameters accepts, the
\* loop is entered and its first iteration starts, and the sleep length is
\* the product interval_minutes * 60 itself, which fits in 64 bits.
C19_SleepIsExactProduct ==
    (get_job_parameters(env).ok /\ pc \notin {"main", "loop_entry"}) =>
        /\ iteration # "none"
        /\ exit_status # "panic" \/ events # <<>>
        /\ MulAdd(job.interval_minutes, SECONDS_PER_MINUTE, 0).carry = 0
        /\ interval_seconds = MulAdd(job.interval_minutes, SECONDS_PER_MINUTE, 0).limbs

----------------------------------------------------------------------------
(* C20 *)

\* C20 as claimed: with the empty brand setting nothing passes the filter
\* and no email is attempted, and every product that passed the filter
\* contains a non-empty configured keyword in its name or maker.
C20_NoEmptyKeywordMatch ==
    /\ env.matcha_brands = <<>> => (matcha_products = <<>> /\ NotifyCalls = 0)
    /\ \A i \in 1..Len(matcha_products) :
          \E b \in 1..Len(job.matcha_brands) :
              /\ job.matcha_brands[b] # <<>>
              /\ keyword_matches(matcha_products[i], job.matcha_brands[b])

====
